---- MODULE Spec2Model ----
(***************************************************************************)
(* A model of json-dump (src/jdump.py): the separator framed record store, *)
(* its reader and writer with hash based deduplication, the DumpFile       *)
(* session with its write-to-temp-then-rename commit, and the aggregate    *)
(* dump / get_count operations, over a small POSIX file system.            *)
(***************************************************************************)
EXTENDS Integers, Sequences, FiniteSets, TLC

(***************************************************************************)
(* Bounds of the model.                                                    *)
(***************************************************************************)
\* Records offered to one writer (write / writemany calls of one session, or
\* the input sequence of one dump call).
MaxLen == 2
\* Width of the builtin hash(): hash values are 0 .. HashMod - 1 (2^64 in
\* CPython), small enough here that distinct strings can collide.
HashMod == 6

(***************************************************************************)
(* Records: a JSON object is a Python dict, here the sequence of its       *)
(* <<key, value>> pairs in insertion order, the keys distinct.             *)
(***************************************************************************)
Keys == {"a", "b"}
Vals == {1}
\* Python's string order on the keys, as sort_keys=True uses it.
KeyRank(k) == IF k = "a" THEN 1 ELSE 2
Pairs == Keys \X Vals
Records ==
    {<<>>} \cup {<<p>> : p \in Pairs}
           \cup {<<pq[1], pq[2]>> : pq \in {x \in Pairs \X Pairs : x[1][1] # x[2][1]}}

\* dict.__eq__: the same key -> value mapping, whatever the insertion order.
DictEq(r1, r2) == {r1[i] : i \in DOMAIN r1} = {r2[i] : i \in DOMAIN r2}
\* list.__eq__ over dicts.
ListEq(s1, s2) ==
    /\ Len(s1) = Len(s2)
    /\ \A i \in DOMAIN s1 : DictEq(s1[i], s2[i])

RECURSIVE Insert(_, _)
Insert(p, s) ==
    IF s = <<>> THEN <<p>>
    ELSE IF KeyRank(p[1]) <= KeyRank(Head(s)[1]) THEN <<p>> \o s
    ELSE <<Head(s)>> \o Insert(p, Tail(s))
RECURSIVE SortKeys(_)
\* sort_keys=True of json.dumps.
SortKeys(obj) == IF obj = <<>> THEN <<>> ELSE Insert(Head(obj), SortKeys(Tail(obj)))

(***************************************************************************)
(* Text.  A text file is a sequence of lines; a line is the tuple          *)
(* <<tag, key, value, comma>> of what json.dumps(indent=4) puts on it.     *)
(* Line terminators are not kept: the files are opened with universal      *)
(* newlines, so line.rstrip('\r\n') is the line itself.                    *)
(***************************************************************************)
OpenLine == <<"{", "", 0, FALSE>>
CloseLine == <<"}", "", 0, FALSE>>
EmptyLine == <<"{}", "", 0, FALSE>>
BlankLine == <<"", "", 0, FALSE>>
SepLine == <<"--", "", 0, FALSE>>
KVLine(k, v, comma) == <<"kv", k, v, comma>>

\* formatted_json = json.dumps(json_obj, indent=4, sort_keys=True, ...),
\* as its lines.
Dumps(obj) ==
    LET s == SortKeys(obj)
    IN  IF s = <<>> THEN <<EmptyLine>>
        ELSE <<OpenLine>>
             \o [i \in 1..Len(s) |-> KVLine(s[i][1], s[i][2], i < Len(s))]
             \o <<CloseLine>>

RECURSIVE DictSet(_, _, _)
\* d[k] = v on a dict: a repeated key keeps its place and takes the new value.
DictSet(d, k, v) ==
    IF d = <<>> THEN <<<<k, v>>>>
    ELSE IF Head(d)[1] = k THEN <<<<k, v>>>> \o Tail(d)
    ELSE <<Head(d)>> \o DictSet(Tail(d), k, v)
RECURSIVE LoadPairs(_, _)
LoadPairs(lines, d) ==
    IF lines = <<>> THEN d
    ELSE LoadPairs(Tail(lines), DictSet(d, Head(lines)[2], Head(lines)[3]))
\* Blank lines are JSON whitespace.
NonBlank(lines) == SelectSeq(lines, LAMBDA l : l # BlankLine)
\* json.loads(''.join(block)): [ok, obj]; ok = FALSE is json.JSONDecodeError.
Loads(block) ==
    LET ls == NonBlank(block)
        n == Len(ls)
    IN  IF ls = <<EmptyLine>> THEN [ok |-> TRUE, obj |-> <<>>]
        ELSE IF /\ n >= 3
                /\ ls[1] = OpenLine
                /\ ls[n] = CloseLine
                /\ \A i \in 2..(n - 1) : ls[i][1] = "kv" /\ ls[i][4] = (i < n - 1)
             THEN [ok |-> TRUE, obj |-> LoadPairs(SubSeq(ls, 2, n - 1), <<>>)]
        ELSE [ok |-> FALSE, obj |-> <<>>]

(***************************************************************************)
(* Hashing.  hash() is taken over the characters of a string; a character  *)
(* is a small number here.                                                 *)
(***************************************************************************)
KVChars(k, v) == <<10 + KeyRank(k), 6, 20 + v>>
LineChars(l) ==
    CASE l[1] = "{" -> <<1>>
      [] l[1] = "}" -> <<2>>
      [] l[1] = "{}" -> <<1, 2>>
      [] l[1] = "--" -> <<8, 8>>
      [] l[1] = "kv" -> <<4>> \o KVChars(l[2], l[3]) \o (IF l[4] THEN <<7>> ELSE <<>>)
      [] OTHER -> <<>>
RECURSIVE TextChars(_)
\* '\n'.join(lines)
TextChars(lines) ==
    IF lines = <<>> THEN <<>>
    ELSE IF Len(lines) = 1 THEN LineChars(lines[1])
    ELSE LineChars(Head(lines)) \o <<3>> \o TextChars(Tail(lines))
RECURSIVE CompactPairs(_)
CompactPairs(s) ==
    IF s = <<>> THEN <<>>
    ELSE IF Len(s) = 1 THEN KVChars(s[1][1], s[1][2])
    ELSE KVChars(s[1][1], s[1][2]) \o <<7>> \o CompactPairs(Tail(s))
\* json.dumps(json_obj, sort_keys=True, ...) without indent: one line.
CompactChars(obj) == <<1>> \o CompactPairs(SortKeys(obj)) \o <<2>>

RECURSIVE HashFrom(_, _)
HashFrom(h, chars) ==
    IF chars = <<>> THEN h
    ELSE HashFrom((h * 31 + Head(chars)) % HashMod, Tail(chars))
\* The builtin hash() of a str: a function of its characters into a fixed width.
PyHash(chars) == HashFrom(0, chars)

\* The writer's dedup key: hash(formatted_json).
WriterHash(obj) == PyHash(TextChars(Dumps(obj)))
\* The reader's (and load's) dedup key: hash(json.dumps(json_obj, sort_keys=True)).
ReaderHash(obj) == PyHash(CompactChars(obj))

(***************************************************************************)
(* The framer, _reader(file_obj, separator): a generator over the lines of *)
(* a file.  Its state is the next line to read.                            *)
(***************************************************************************)
\* ''.join(json_buffer).strip() is empty.
IsBlank(block) == \A i \in DOMAIN block : block[i] = BlankLine

RECURSIVE Scan(_, _, _)
\* The for loop of _reader from line `pos` on, up to its next yield or the
\* end of the file.
Scan(lines, pos, json_buffer) ==
    IF pos > Len(lines) THEN [eof |-> TRUE, block |-> json_buffer, pos |-> pos]
    ELSE IF lines[pos] = SepLine
         THEN [eof |-> FALSE, block |-> json_buffer, pos |-> pos + 1]
    ELSE Scan(lines, pos + 1, Append(json_buffer, lines[pos]))

\* next(self._reader): stop = TRUE is StopIteration; warn = TRUE is the
\* 'dump file did not end with separator' warning.
FramerNext(lines, pos) ==
    LET r == Scan(lines, pos, <<>>)
    IN  IF ~r.eof
        THEN [stop |-> FALSE, block |-> r.block, pos |-> r.pos, warn |-> FALSE]
        ELSE IF IsBlank(r.block)
        THEN [stop |-> TRUE, block |-> <<>>, pos |-> r.pos, warn |-> FALSE]
        ELSE [stop |-> FALSE, block |-> r.block, pos |-> r.pos, warn |-> TRUE]

RECURSIVE FramedBetween(_, _, _)
\* What the framer yields from line pos until it stands at line to: the
\* blocks and whether it warned.
FramedBetween(lines, pos, to) ==
    IF pos >= to THEN [blocks |-> <<>>, warn |-> FALSE]
    ELSE LET b == FramerNext(lines, pos)
             rest == FramedBetween(lines, b.pos, to)
         IN  [blocks |-> (IF b.stop THEN <<>> ELSE <<b.block>>) \o rest.blocks,
              warn |-> b.warn \/ rest.warn]

(***************************************************************************)
(* DumpReader.  rd is [pos, count, unique, seen].                          *)
(***************************************************************************)
NewReader(unique) == [pos |-> 1, count |-> 0, unique |-> unique, seen |-> {}]

RECURSIVE ReaderNextForgets(_, _)
\* A variant that never records the hash: no self.seen.add.
ReaderNextForgets(rd, lines) ==
    LET b == FramerNext(lines, rd.pos)
        o == Loads(b.block)
        at == [rd EXCEPT !.pos = b.pos]
    IN  IF b.stop THEN [st |-> "stop", obj |-> <<>>, rd |-> at]
        ELSE IF ~o.ok THEN [st |-> "error", obj |-> <<>>, rd |-> at]
        ELSE IF rd.unique /\ ReaderHash(o.obj) \in rd.seen
             THEN ReaderNextForgets(at, lines)
        ELSE [st |-> "ok", obj |-> o.obj, rd |-> [at EXCEPT !.count = @ + 1]]

RECURSIVE ReaderNext(_, _)
\* DumpReader.__next__: st is "ok" (obj returned), "stop" (StopIteration) or
\* "error" (json.JSONDecodeError).
ReaderNext(rd, lines) ==
    LET b == FramerNext(lines, rd.pos)
        o == Loads(b.block)
        at == [rd EXCEPT !.pos = b.pos]
    IN  IF b.stop THEN [st |-> "stop", obj |-> <<>>, rd |-> at]
        ELSE IF ~o.ok THEN [st |-> "error", obj |-> <<>>, rd |-> at]
        ELSE IF rd.unique /\ ReaderHash(o.obj) \in rd.seen THEN ReaderNext(at, lines)
        ELSE [st |-> "ok", obj |-> o.obj,
              rd |-> [at EXCEPT !.count = @ + 1,
                                !.seen = IF rd.unique THEN @ \cup {ReaderHash(o.obj)}
                                         ELSE @]]

RECURSIVE ReadLoopRaises(_, _, _, _)
\* A variant without the except StopIteration clause: the StopIteration of
\* next(self) leaves read(n), n >= 0, and what was read is lost.
ReadLoopRaises(rd, lines, n, ret) ==
    IF n = 0 THEN [st |-> "ok", ret |-> ret, rd |-> rd, got |-> ret]
    ELSE LET r == ReaderNext(rd, lines)
         IN  IF r.st = "stop"
             THEN IF n > 0 THEN [st |-> "stop", ret |-> <<>>, rd |-> r.rd, got |-> ret]
                  ELSE [st |-> "ok", ret |-> ret, rd |-> r.rd, got |-> ret]
             ELSE IF r.st = "error"
             THEN [st |-> "error", ret |-> <<>>, rd |-> r.rd, got |-> ret]
             ELSE ReadLoopRaises(r.rd, lines, IF n > 0 THEN n - 1 ELSE n,
                                 Append(ret, r.obj))

RECURSIVE ReadLoop(_, _, _, _)
\* The loops of read(n): st is "ok" (ret returned), "error" (the
\* json.JSONDecodeError of next(self) leaves read) or "stop" (a StopIteration
\* leaves read); got is what next(self) returned to the loop.
ReadLoop(rd, lines, n, ret) ==
    IF n = 0 THEN [st |-> "ok", ret |-> ret, rd |-> rd, got |-> ret]
    ELSE LET r == ReaderNext(rd, lines)
         IN  IF r.st = "stop" THEN [st |-> "ok", ret |-> ret, rd |-> r.rd, got |-> ret]
             ELSE IF r.st = "error"
             THEN [st |-> "error", ret |-> <<>>, rd |-> r.rd, got |-> ret]
             ELSE ReadLoop(r.rd, lines, IF n > 0 THEN n - 1 ELSE n, Append(ret, r.obj))
\* DumpReader.read(n): up to n items, all of them when n < 0.
ReaderRead(rd, lines, n) == ReadLoop(rd, lines, n, <<>>)

RECURSIVE SkipLoopCounts(_, _, _, _)
\* A variant that counts what it skips as read: self.count += 1.
SkipLoopCounts(rd, lines, n, num_skipped) ==
    IF n = 0 THEN [ret |-> num_skipped, rd |-> rd]
    ELSE LET b == FramerNext(lines, rd.pos)
             at == [rd EXCEPT !.pos = b.pos]
         IN  IF b.stop THEN [ret |-> num_skipped, rd |-> at]
             ELSE SkipLoopCounts([at EXCEPT !.count = @ + 1], lines,
                                 IF n > 0 THEN n - 1 ELSE n, num_skipped + 1)

RECURSIVE Parsed(_)
\* The records of the blocks as json.loads gives them; a block it rejects
\* gives none.
Parsed(blocks) ==
    IF blocks = <<>> THEN <<>>
    ELSE LET o == Loads(Head(blocks))
         IN  (IF o.ok THEN <<o.obj>> ELSE <<>>) \o Parsed(Tail(blocks))
\* The records of the blocks the framer yields from line pos up to line to.
ParsedBetween(lines, pos, to) == Parsed(FramedBetween(lines, pos, to).blocks)

RECURSIVE SkipLoop(_, _, _, _)
SkipLoop(rd, lines, n, num_skipped) ==
    IF n = 0 THEN [ret |-> num_skipped, rd |-> rd]
    ELSE LET b == FramerNext(lines, rd.pos)
             at == [rd EXCEPT !.pos = b.pos]
         IN  IF b.stop THEN [ret |-> num_skipped, rd |-> at]
             ELSE SkipLoop(at, lines, IF n > 0 THEN n - 1 ELSE n, num_skipped + 1)
\* A variant without the n < 0 branch: skip(-1) skips nothing.
ReaderSkipBounded(rd, lines, n) == SkipLoop(rd, lines, IF n < 0 THEN 0 ELSE n, 0)
\* DumpReader.skip(n): up to n raw blocks, all of them when n < 0.
ReaderSkip(rd, lines, n) == SkipLoop(rd, lines, n, 0)

(***************************************************************************)
(* DumpWriter.  w is [count, unique, seen]; out is the text handed to      *)
(* file_obj.write.                                                         *)
(***************************************************************************)
NewWriter(unique) == [count |-> 0, unique |-> unique, seen |-> {}]

\* A variant that records the hash before it looks it up: self.seen.add
\* ahead of the membership test.
WriterWriteAddsFirst(w, json_obj) ==
    LET formatted_json == Dumps(json_obj)
        json_hash == PyHash(TextChars(formatted_json))
        seen == IF w.unique THEN w.seen \cup {json_hash} ELSE w.seen
    IN  IF w.unique /\ json_hash \in seen
        THEN [ret |-> FALSE, w |-> [w EXCEPT !.seen = seen], out |-> <<>>]
        ELSE [ret |-> TRUE, w |-> [w EXCEPT !.count = @ + 1, !.seen = seen],
              out |-> formatted_json \o <<SepLine>>]
\* A variant that never records the hash: no self.seen.add.
WriterWriteForgets(w, json_obj) ==
    LET formatted_json == Dumps(json_obj)
        json_hash == PyHash(TextChars(formatted_json))
    IN  IF w.unique /\ json_hash \in w.seen
        THEN [ret |-> FALSE, w |-> w, out |-> <<>>]
        ELSE [ret |-> TRUE, w |-> [w EXCEPT !.count = @ + 1],
              out |-> formatted_json \o <<SepLine>>]

\* DumpWriter.write(json_obj).
WriterWrite(w, json_obj) ==
    LET formatted_json == Dumps(json_obj)
        json_hash == PyHash(TextChars(formatted_json))
    IN  IF w.unique /\ json_hash \in w.seen
        THEN [ret |-> FALSE, w |-> w, out |-> <<>>]
        ELSE [ret |-> TRUE,
              w |-> [w EXCEPT !.count = @ + 1,
                              !.seen = IF w.unique THEN @ \cup {json_hash} ELSE @],
              out |-> formatted_json \o <<SepLine>>]

\* DumpWriter.write(json_obj) when self.file_obj.write raises (the device is
\* full, the text cannot be encoded): the lines above the stream write have
\* run, the lines below it have not.  A record found in self.seen returns
\* before the stream write.
WriterWriteRaises(w, json_obj) ==
    LET formatted_json == Dumps(json_obj)
        json_hash == PyHash(TextChars(formatted_json))
    IN  IF w.unique /\ json_hash \in w.seen
        THEN [ret |-> FALSE, w |-> w, out |-> <<>>, err |-> ""]
        ELSE [ret |-> FALSE,
              w |-> [w EXCEPT !.seen = IF w.unique THEN @ \cup {json_hash} ELSE @],
              out |-> <<>>, err |-> "OSError"]

RECURSIVE WriteLoop(_, _, _, _)
WriteLoop(w, objs, n, out) ==
    IF objs = <<>> THEN [ret |-> n, w |-> w, out |-> out]
    ELSE LET r == WriterWrite(w, Head(objs))
         IN  WriteLoop(r.w, Tail(objs), IF r.ret THEN n + 1 ELSE n, out \o r.out)
\* DumpWriter.writemany(json_iterator): sum(self.write(obj) for obj in ...).
WriterWriteMany(w, objs) == WriteLoop(w, objs, 0, <<>>)

(***************************************************************************)
(* The file system (POSIX): a path names an inode or nothing, an open file *)
(* holds its inode whatever happens to the path.                           *)
(***************************************************************************)
Targets == {"p", "q", "z.gz"}
\* self.path.with_suffix(self.path.suffix + '.partial')
TempOf(path) ==
    IF path = "p" THEN "p.partial"
    ELSE IF path = "q" THEN "q.partial"
    ELSE "z.gz.partial"
\* The name of the path ends with '.gz'; the name without '.partial' and
\* '.gz'.
EndsGz(path) == path = "z.gz"
Stem(path) == IF path \in {"z.gz", "z.gz.partial"} THEN "z" ELSE path
Paths == Targets \cup {TempOf(t) : t \in Targets}
SessIds == {1, 2}
Inodes == 1..(Cardinality(Paths) + Cardinality(SessIds))

VARIABLES
    fs,      \* path -> inode, 0 when nothing is at the path
    disk,    \* inode -> the lines of the file
    sess,    \* the DumpFile objects of the program
    call,    \* the running dump() call
    cnt,     \* the last get_count() call: [n, paths]
    ld,      \* the last load() call, run to its end: [st, ret, paths, unique]
    alive    \* the program has not been interrupted
vars == <<fs, disk, sess, call, cnt, ld, alive>>

NoFile == <<>>
\* What the target holds before the program runs, what an earlier interrupted
\* run left at the temporary path, and what another process writes.
OldRecords == <<<<<<"b", 1>>>>>>
OtherRecords == <<<<<<"a", 1>>, <<"b", 1>>>>>>
OldFile == WriterWriteMany(NewWriter(TRUE), OldRecords).out
OtherFile == WriterWriteMany(NewWriter(TRUE), OtherRecords).out
StaleFile == <<OpenLine>>

Exists(path) == fs[path] # 0
\* The file at a path as a reader of the path sees it.
FileAt(path) ==
    [exists |-> Exists(path),
     data |-> IF Exists(path) THEN disk[fs[path]] ELSE <<>>]

Idle ==
    [pc |-> "none", mode |-> "r", path |-> "p", temp |-> FALSE, unique |-> TRUE,
     ino |-> 0, buf |-> <<>>, seen |-> {}, count |-> 0, pos |-> 1, gz |-> FALSE,
     \* history: the write_temp flag and the target as the session was
     \* opened, where the session was when another process created the
     \* target, whether __exit__ ran with an exception, the records offered
     \* to write, the file as closed, the last call and what it returned,
     \* the error raised, whether close() warned, whether close() was called
     \* on the closed session, the argument of the last read or skip, the
     \* records next() returned and the records it parsed, the blocks the
     \* framer yielded and whether it warned, the records whose write
     \* raised
     write_temp |-> FALSE, orig |-> [exists |-> FALSE, data |-> <<>>],
     raced |-> "", exc |-> FALSE, offered |-> <<>>, wrote |-> <<>>,
     did |-> "", ret |-> <<>>, nret |-> 0, err |-> "", warned |-> FALSE,
     again |-> FALSE, arg |-> 0, got |-> <<>>, fed |-> <<>>,
     blocks |-> <<>>, corrupt |-> FALSE, failed |-> <<>>]

\* No get_count() call was made.
NoCount == [n |-> 0, paths |-> {}]
\* No load() call was made.
NoLoad == [st |-> "", ret |-> <<>>, paths |-> <<>>, unique |-> TRUE]

Closing == {"c_isfile", "c_exists", "c_unlink", "c_rename"}
Active == {"open"} \cup Closing
NoCall ==
    [pc |-> "idle", paths |-> <<>>, mode |-> "w", unique |-> TRUE, objs |-> <<>>,
     bad |-> FALSE, k |-> 0, n_written |-> -1, ret |-> 0, noop |-> FALSE,
     \* history: the elements taken from json_iterator
     taken |-> 0]
CallActive == {"opening", "writing", "closing"}

Refs(f, se) == ({f[p] : p \in Paths} \cup {se[t].ino : t \in SessIds}) \ {0}
\* The inode a newly created file gets.
FreeIno(f, se) == CHOOSE i \in Inodes \ Refs(f, se) :
                      \A j \in Inodes \ Refs(f, se) : i <= j
\* An inode with no path and no open file is gone.
Reap(f, d, se) == [i \in Inodes |-> IF i \in Refs(f, se) THEN d[i] ELSE NoFile]

(***************************************************************************)
(* gzip.  A compressed file is a sequence of members, each a header (that  *)
(* starts with the bytes 1F 8B and holds a file name), the compressed      *)
(* lines, and a trailer with their number.  write_gz is [flag, name]: the  *)
(* value True, or a file name; both unset is False.                        *)
(***************************************************************************)
NoGz == [flag |-> FALSE, name |-> ""]
GzFlag == [flag |-> TRUE, name |-> ""]
GzNamed(name) == [flag |-> FALSE, name |-> name]
\* if write_gz:
Truthy(write_gz) == write_gz.flag \/ write_gz.name # ""

GzHeader(filename) == <<"\\x1f\\x8b", filename, 0, FALSE>>
GzTrailer(n) == <<"isize", "", n, FALSE>>
Deflate(line) == <<"z", line[1], line[2], line[3], line[4]>>
Inflate(z) == <<z[2], z[3], z[4], z[5]>>
IsDeflated(b) == Len(b) = 5
DeflateLines(lines) == [i \in DOMAIN lines |-> Deflate(lines[i])]
\* What a text file object, compressing or not, hands to its file.
Encode(gz, lines) == IF gz THEN DeflateLines(lines) ELSE lines
\* b = f.read(2); b == b'\x1f\x8b'
HasMagic(bytes) == bytes # <<>> /\ Len(bytes[1]) = 4 /\ bytes[1][1] = "\\x1f\\x8b"

\* The number of compressed lines of the member that is being written.
RECURSIVE MemberLen(_)
MemberLen(bytes) ==
    IF bytes = <<>> THEN 0
    ELSE IF IsDeflated(bytes[Len(bytes)])
    THEN 1 + MemberLen(SubSeq(bytes, 1, Len(bytes) - 1))
    ELSE 0

\* gzip.open(path, 'rt') read to the end: the text of the members one after
\* the other.  err is "BadGzipFile" where a header is expected and is not
\* there, "EOFError" where the file ends inside a member.
RECURSIVE GunzipFrom(_, _, _, _)
GunzipFrom(bytes, i, n, lines) ==
    \* n = -1: between members; n >= 0: in a member, after n lines
    IF i > Len(bytes)
    THEN [err |-> IF n = -1 THEN "" ELSE "EOFError", lines |-> lines]
    ELSE IF n = -1
    THEN IF Len(bytes[i]) = 4 /\ bytes[i][1] = "\\x1f\\x8b"
         THEN GunzipFrom(bytes, i + 1, 0, lines)
         ELSE [err |-> "BadGzipFile", lines |-> lines]
    ELSE IF IsDeflated(bytes[i])
    THEN GunzipFrom(bytes, i + 1, n + 1, Append(lines, Inflate(bytes[i])))
    ELSE IF bytes[i] = GzTrailer(n)
    THEN GunzipFrom(bytes, i + 1, -1, lines)
    ELSE [err |-> "BadGzipFile", lines |-> lines]
Gunzip(bytes) ==
    IF bytes = <<>> THEN [err |-> "EOFError", lines |-> <<>>]
    ELSE GunzipFrom(bytes, 1, -1, <<>>)

\* A variant that goes by the name of the file: path.endswith('.gz').
UseGzipByName(name_gz, bytes) == name_gz
\* __init__, read and append mode: _open is gzip.open when the first two
\* bytes of the file are 1F 8B.
UseGzip(name_gz, bytes) == HasMagic(bytes)
\* The text of a file as a file object of the mode reads it.
TextRead(gz, bytes) == IF gz THEN Gunzip(bytes) ELSE [err |-> "", lines |-> bytes]
\* The text of the file at a path as DumpFile(path, 'r') reads it.
TextAt(path) ==
    TextRead(UseGzip(EndsGz(path), disk[fs[path]]), disk[fs[path]]).lines

(***************************************************************************)
(* DumpFile.                                                               *)
(***************************************************************************)
WriterOf(se) == [count |-> se.count, unique |-> se.unique, seen |-> se.seen]
ReaderOf(se) == [pos |-> se.pos, count |-> se.count, unique |-> se.unique, seen |-> se.seen]
Raise(se, err) == [se EXCEPT !.pc = "raised", !.err = err]

\* A variant that tests the wrong path: if self.temp_path.exists().
MustNotExistTemp(path, mode) == mode = "x" /\ Exists(TempOf(path))
\* __init__: if self.mode == 'x' and self.path.exists(): raise FileExistsError
MustNotExist(path, mode) == mode = "x" /\ Exists(path)
\* A variant that always opens self.path.
OpenPathTarget(path, write_temp) == path
\* __init__: the path handed to io.open, self.temp_path when it is set.
OpenPath(path, write_temp) == IF write_temp THEN TempOf(path) ELSE path

\* The records of a text, block by block.
RecordsIn(text) == Parsed(FramedBetween(text, 1, Len(text) + 1).blocks)
\* A variant that scans the store for what it holds: the dedup set starts
\* with the hashes of the records in the file.
AppendWriterScans(unique, text) ==
    [NewWriter(unique) EXCEPT
        !.seen = IF unique
                 THEN {WriterHash(RecordsIn(text)[i]) : i \in DOMAIN RecordsIn(text)}
                 ELSE {}]
\* __init__, append mode: DumpWriter(self.file_obj, unique=unique) over the
\* file that holds text.
AppendWriter(unique, text) == NewWriter(unique)

\* DumpFile.__init__(path, mode, write_gz=write_gz, unique=unique,
\* write_temp=write_temp) for the object in slot s: the file system it
\* leaves and the object, whose pc is "raised" when the constructor raises.
OpenFile(s, path, mode, unique, write_temp, write_gz) ==
    LET base == [Idle EXCEPT !.mode = mode, !.path = path, !.unique = unique,
                             !.orig = FileAt(path)]
        rest == [sess EXCEPT ![s] = Idle]
    IN  IF mode \in {"r", "a"} THEN
            \* read/append mode (don't create new file)
            IF ~Exists(path)
            THEN [fs |-> fs, disk |-> disk, se |-> Raise(base, "FileNotFoundError")]
            ELSE LET bytes == disk[fs[path]]
                     gz == UseGzip(EndsGz(path), bytes)
                     w == AppendWriter(unique, TextRead(gz, bytes).lines)
                 IN  IF mode = "r"
                     THEN [fs |-> fs, disk |-> disk,
                           se |-> [base EXCEPT !.pc = "open", !.ino = fs[path],
                                               !.gz = gz]]
                     ELSE \* gzip.open(path, 'at') starts a member
                          [fs |-> fs, disk |-> disk,
                           se |-> [base EXCEPT !.pc = "open", !.ino = fs[path],
                                               !.gz = gz, !.seen = w.seen,
                                               !.buf = IF gz THEN <<GzHeader(Stem(path))>>
                                                       ELSE <<>>]]
        ELSE IF MustNotExist(path, mode) THEN
            [fs |-> fs, disk |-> disk, se |-> Raise(base, "FileExistsError")]
        ELSE
            LET \* check the temp path: unlink what is there
                fs1 == IF write_temp THEN [fs EXCEPT ![TempOf(path)] = 0] ELSE fs
                file == OpenPath(path, write_temp)
                new == FreeIno(fs1, rest)
                \* the name in the header: that of write_gz, else that of
                \* self.path less '.partial' and '.gz'
                filename == IF write_gz.name # "" THEN write_gz.name ELSE Stem(path)
                se == [base EXCEPT !.pc = "open", !.temp = write_temp,
                                   !.write_temp = write_temp,
                                   !.gz = Truthy(write_gz),
                                   !.buf = IF Truthy(write_gz)
                                           THEN <<GzHeader(filename)>> ELSE <<>>]
            IN  IF fs1[file] = 0
                THEN \* io.open creates the file
                     [fs |-> [fs1 EXCEPT ![file] = new],
                      disk |-> [disk EXCEPT ![new] = NoFile],
                      se |-> [se EXCEPT !.ino = new]]
                ELSE IF mode = "x"
                THEN \* io.open(file, 'x') on an existing file
                     [fs |-> fs1, disk |-> disk, se |-> Raise(base, "FileExistsError")]
                ELSE \* io.open(file, 'w') truncates an existing file
                     [fs |-> fs1, disk |-> [disk EXCEPT ![fs1[file]] = NoFile],
                      se |-> [se EXCEPT !.ino = fs1[file]]]

\* The part of DumpFile.close() that closes the file objects (jdump.py lines
\* 349-359): the buffered text reaches the file and the handle is released.
CloseFileOp(s, exc) ==
    LET se == sess[s]
        writes == se.ino # 0 /\ se.mode # "r"
        \* closing a compressing file object ends the member
        bytes == IF se.ino = 0 THEN <<>> ELSE disk[se.ino] \o se.buf
        data == IF writes /\ se.gz THEN Append(bytes, GzTrailer(MemberLen(bytes)))
                ELSE bytes
    IN  [disk |-> IF writes THEN [disk EXCEPT ![se.ino] = data] ELSE disk,
         se |-> [se EXCEPT !.pc = IF se.temp THEN "c_isfile" ELSE "closed",
                           !.ino = 0, !.buf = <<>>, !.exc = @ \/ exc,
                           !.wrote = IF writes THEN data ELSE @,
                           !.warned = @ \/ (se.ino = 0),
                           !.again = (se.pc = "closed")]]

\* The program is between calls: no dump() is running.
Free == alive /\ call.pc \notin CallActive

\* DumpFile(path, mode, write_gz=write_gz, unique=unique,
\* write_temp=write_temp) made by the program.
OpenGz(s, path, mode, unique, write_temp, write_gz) ==
    /\ Free
    /\ sess[s].pc \notin Active
    /\ LET r == OpenFile(s, path, mode, unique, write_temp, write_gz)
       IN  /\ fs' = r.fs
           /\ sess' = [sess EXCEPT ![s] = r.se]
           /\ disk' = Reap(r.fs, r.disk, sess')
    /\ UNCHANGED <<call, cnt, ld, alive>>

\* DumpFile(path, mode, unique=unique, write_temp=write_temp): write_gz is
\* False.
Open(s, path, mode, unique, write_temp) ==
    OpenGz(s, path, mode, unique, write_temp, NoGz)

\* DumpFile.write(json_obj).
Write(s, json_obj) ==
    /\ Free
    /\ sess[s].pc = "open" /\ sess[s].mode # "r"
    /\ Len(sess[s].offered) < MaxLen
    /\ LET r == WriterWrite(WriterOf(sess[s]), json_obj)
       IN  sess' = [sess EXCEPT ![s].count = r.w.count, ![s].seen = r.w.seen,
                                ![s].buf = @ \o Encode(sess[s].gz, r.out),
                                ![s].offered = Append(@, json_obj),
                                ![s].did = IF r.ret THEN "written" ELSE "not written"]
    /\ UNCHANGED <<fs, disk, call, cnt, ld, alive>>

\* DumpFile.write(json_obj) on a stream whose write raises: the error goes
\* to the caller and the session stays open.
WriteRaises(s, json_obj) ==
    /\ Free
    /\ sess[s].pc = "open" /\ sess[s].mode # "r"
    /\ Len(sess[s].failed) < MaxLen
    /\ LET r == WriterWriteRaises(WriterOf(sess[s]), json_obj)
       IN  /\ r.err # ""
           /\ sess' = [sess EXCEPT ![s].count = r.w.count, ![s].seen = r.w.seen,
                                    ![s].buf = @ \o Encode(sess[s].gz, r.out),
                                    ![s].failed = Append(@, json_obj),
                                    ![s].did = "write raised", ![s].err = r.err]
    /\ UNCHANGED <<fs, disk, call, cnt, ld, alive>>

\* DumpFile.writemany(json_iterator).
WriteMany(s, objs) ==
    /\ Free
    /\ sess[s].pc = "open" /\ sess[s].mode # "r"
    /\ objs # <<>>
    /\ Len(sess[s].offered) + Len(objs) <= MaxLen
    /\ LET r == WriterWriteMany(WriterOf(sess[s]), objs)
       IN  sess' = [sess EXCEPT ![s].count = r.w.count, ![s].seen = r.w.seen,
                                ![s].buf = @ \o Encode(sess[s].gz, r.out),
                                ![s].offered = @ \o objs,
                                ![s].did = "writemany", ![s].nret = r.ret]
    /\ UNCHANGED <<fs, disk, call, cnt, ld, alive>>

\* DumpFile.flush().
Flush(s) ==
    /\ Free
    /\ sess[s].pc = "open" /\ sess[s].mode # "r"
    /\ sess[s].buf # <<>>
    /\ disk' = [disk EXCEPT ![sess[s].ino] = @ \o sess[s].buf]
    /\ sess' = [sess EXCEPT ![s].buf = <<>>]
    /\ UNCHANGED <<fs, call, cnt, ld, alive>>

\* DumpFile.read(n).
Read(s, n) ==
    /\ Free
    /\ sess[s].pc = "open" /\ sess[s].mode = "r"
    /\ LET text == TextRead(sess[s].gz, disk[sess[s].ino])
           r == ReaderRead(ReaderOf(sess[s]), text.lines, n)
           fb == FramedBetween(text.lines, sess[s].pos, r.rd.pos)
       IN  IF text.err # ""
           THEN \* the file object raises as the framer reads it
                sess' = [sess EXCEPT ![s].ret = <<>>, ![s].err = text.err,
                                     ![s].arg = n, ![s].did = "used"]
           ELSE
           sess' = [sess EXCEPT ![s].blocks = @ \o fb.blocks,
                                ![s].corrupt = @ \/ fb.warn,
                                ![s].pos = r.rd.pos, ![s].count = r.rd.count,
                                ![s].seen = r.rd.seen, ![s].ret = r.ret,
                                ![s].err = IF r.st = "error" THEN "JSONDecodeError"
                                           ELSE IF r.st = "stop" THEN "StopIteration"
                                           ELSE "",
                                ![s].arg = n, ![s].got = @ \o r.got,
                                ![s].fed = @ \o ParsedBetween(text.lines,
                                                              sess[s].pos, r.rd.pos),
                                ![s].did = IF r.st = "error" THEN "used"
                                           ELSE IF sess[s].did = "" /\ n < 0
                                                THEN "read all" ELSE "used"]
    /\ UNCHANGED <<fs, disk, call, cnt, ld, alive>>

\* DumpFile.skip(n).
Skip(s, n) ==
    /\ Free
    /\ sess[s].pc = "open" /\ sess[s].mode = "r"
    /\ LET text == TextRead(sess[s].gz, disk[sess[s].ino])
           r == ReaderSkip(ReaderOf(sess[s]), text.lines, n)
           fb == FramedBetween(text.lines, sess[s].pos, r.rd.pos)
       IN  IF text.err # ""
           THEN sess' = [sess EXCEPT ![s].ret = <<>>, ![s].err = text.err,
                                     ![s].arg = n, ![s].did = "used"]
           ELSE
           sess' = [sess EXCEPT ![s].blocks = @ \o fb.blocks,
                                ![s].corrupt = @ \/ fb.warn,
                                ![s].pos = r.rd.pos, ![s].nret = r.ret,
                                ![s].count = r.rd.count, ![s].seen = r.rd.seen,
                                ![s].arg = n,
                                ![s].ret = <<>>, ![s].err = "", ![s].did = "used"]
    /\ UNCHANGED <<fs, disk, call, cnt, ld, alive>>

\* DumpFile.close(), up to its commit: the file objects are closed.
CloseFile(s, exc) ==
    /\ sess[s].pc \in {"open", "closed"}
    /\ LET r == CloseFileOp(s, exc)
       IN  /\ sess' = [sess EXCEPT ![s] = r.se]
           /\ disk' = Reap(fs, r.disk, sess')
    /\ UNCHANGED <<fs, call, cnt, ld, alive>>

\* f.close() called by the program.
Close(s) == Free /\ CloseFile(s, FALSE)

\* DumpFile.__exit__, at the end of a with block (exc = FALSE) or when its
\* body raised (exc = TRUE): self.close() either way.
Exit(s, exc) == Free /\ sess[s].pc = "open" /\ CloseFile(s, exc)

\* close(): if self.temp_path.is_file()
CloseIsFile(s) ==
    /\ alive
    /\ sess[s].pc = "c_isfile"
    /\ sess' = [sess EXCEPT ![s].pc = IF Exists(TempOf(sess[s].path))
                                      THEN "c_exists" ELSE "closed",
                            ![s].warned = @ \/ ~Exists(TempOf(sess[s].path))]
    /\ UNCHANGED <<fs, disk, call, cnt, ld, alive>>

\* close(): if self.path.exists()
CloseExists(s) ==
    /\ alive
    /\ sess[s].pc = "c_exists"
    /\ sess' = [sess EXCEPT ![s].pc = IF Exists(sess[s].path)
                                      THEN "c_unlink" ELSE "c_rename"]
    /\ UNCHANGED <<fs, disk, call, cnt, ld, alive>>

\* close(): self.path.unlink()
CloseUnlink(s) ==
    /\ alive
    /\ sess[s].pc = "c_unlink"
    /\ IF Exists(sess[s].path)
       THEN /\ fs' = [fs EXCEPT ![sess[s].path] = 0]
            /\ sess' = [sess EXCEPT ![s].pc = "c_rename"]
       ELSE /\ fs' = fs
            /\ sess' = [sess EXCEPT ![s] = Raise(@, "FileNotFoundError")]
    /\ disk' = Reap(fs', disk, sess')
    /\ UNCHANGED <<call, cnt, ld, alive>>

\* A variant that copies the temporary file onto the target and leaves it.
CloseRenameCopies(s) ==
    /\ alive
    /\ sess[s].pc = "c_rename"
    /\ LET path == sess[s].path
           temp_path == TempOf(path)
       IN  IF Exists(temp_path)
           THEN /\ fs' = [fs EXCEPT ![path] = fs[temp_path]]
                /\ sess' = [sess EXCEPT ![s].pc = "closed", ![s].temp = FALSE]
           ELSE /\ fs' = fs
                /\ sess' = [sess EXCEPT ![s] = Raise(@, "FileNotFoundError")]
    /\ disk' = Reap(fs', disk, sess')
    /\ UNCHANGED <<call, cnt, ld, alive>>

\* close(): self.temp_path.rename(self.path); self.temp_path = None
CloseRename(s) ==
    /\ alive
    /\ sess[s].pc = "c_rename"
    /\ LET path == sess[s].path
           temp_path == TempOf(path)
       IN  IF Exists(temp_path)
           THEN /\ fs' = [fs EXCEPT ![path] = fs[temp_path], ![temp_path] = 0]
                /\ sess' = [sess EXCEPT ![s].pc = "closed", ![s].temp = FALSE]
           ELSE /\ fs' = fs
                /\ sess' = [sess EXCEPT ![s] = Raise(@, "FileNotFoundError")]
    /\ disk' = Reap(fs', disk, sess')
    /\ UNCHANGED <<call, cnt, ld, alive>>

(***************************************************************************)
(* dump(json_iterator, paths, overwrite, unique).  The call is a frame:    *)
(* its files are the objects in slots 1 .. len(paths), objs is what the    *)
(* iterator yields and bad says that it raises after that.                 *)
(***************************************************************************)
\* A variant that skips only when every target exists: all() for any().
DumpCallAll(objs, bad, paths, overwrite, unique) ==
    /\ Free
    /\ \A s \in SessIds : sess[s].pc \notin Active
    /\ LET frame == [NoCall EXCEPT !.paths = paths, !.unique = unique,
                                   !.objs = objs, !.bad = bad,
                                   !.mode = IF overwrite THEN "w" ELSE "x"]
       IN  IF paths = <<>> \/ (~overwrite /\ \A i \in DOMAIN paths : Exists(paths[i]))
           THEN /\ call' = [frame EXCEPT !.pc = "returned", !.ret = 0, !.noop = TRUE]
                /\ sess' = sess
           ELSE /\ call' = [frame EXCEPT !.pc = "opening"]
                /\ sess' = [s \in SessIds |-> Idle]
    /\ UNCHANGED <<fs, disk, cnt, ld, alive>>

DumpCall(objs, bad, paths, overwrite, unique) ==
    /\ Free
    /\ \A s \in SessIds : sess[s].pc \notin Active
    /\ LET frame == [NoCall EXCEPT !.paths = paths, !.unique = unique,
                                   !.objs = objs, !.bad = bad,
                                   !.mode = IF overwrite THEN "w" ELSE "x"]
       IN  IF paths = <<>> \/ (~overwrite /\ \E i \in DOMAIN paths : Exists(paths[i]))
           THEN \* no output paths, or not overwrite and a target exists: return 0
                /\ call' = [frame EXCEPT !.pc = "returned", !.ret = 0, !.noop = TRUE]
                /\ sess' = sess
           ELSE /\ call' = [frame EXCEPT !.pc = "opening"]
                /\ sess' = [s \in SessIds |-> Idle]
    /\ UNCHANGED <<fs, disk, cnt, ld, alive>>

\* set filename: the name of the path less its '.gz', False for a name that
\* does not end with 'gz'.
GzName(path) == IF EndsGz(path) THEN GzNamed(Stem(path)) ELSE NoGz

\* make output files: f = DumpFile(path, mode=mode, write_gz=filename,
\* unique=unique, write_temp=True)
DumpOpen ==
    /\ alive
    /\ call.pc = "opening"
    /\ LET f == call.k + 1
           r == OpenFile(f, call.paths[f], call.mode, call.unique, TRUE,
                         GzName(call.paths[f]))
       IN  /\ fs' = r.fs
           /\ sess' = [sess EXCEPT ![f] = r.se]
           /\ disk' = Reap(r.fs, r.disk, sess')
           /\ call' = IF r.se.pc = "raised" THEN [call EXCEPT !.pc = "raised"]
                      ELSE IF f = Len(call.paths)
                      THEN [call EXCEPT !.pc = "writing", !.k = 0]
                      ELSE [call EXCEPT !.k = f]
    /\ UNCHANGED <<cnt, ld, alive>>

\* A variant that hands the iterator to each file in turn, for f in files:
\* f.writemany(json_iterator): the first file exhausts it.
DumpWriteInTurn ==
    /\ alive
    /\ call.pc = "writing"
    /\ LET files == 1..Len(call.paths)
           r == [f \in files |->
                   WriterWriteMany(WriterOf(sess[f]), IF f = 1 THEN call.objs ELSE <<>>)]
       IN  /\ sess' = [s \in SessIds |->
                         IF s \in files
                         THEN [sess[s] EXCEPT !.count = r[s].w.count, !.seen = r[s].w.seen,
                                              !.buf = @ \o Encode(sess[s].gz, r[s].out),
                                              !.offered = @ \o (IF s = 1 THEN call.objs ELSE <<>>),
                                              !.did = "writemany", !.nret = r[s].ret]
                         ELSE sess[s]]
    /\ call' = [call EXCEPT !.pc = IF call.bad THEN "raised" ELSE "closing", !.k = 0,
                            !.taken = Len(call.objs)]
    /\ UNCHANGED <<fs, disk, cnt, ld, alive>>

\* write items: files[0].writemany(json_iterator) for one file, else every
\* object to every file in turn, which gives each file the same sequence of
\* write calls.
DumpWrite ==
    /\ alive
    /\ call.pc = "writing"
    /\ LET files == 1..Len(call.paths)
           r == [f \in files |-> WriterWriteMany(WriterOf(sess[f]), call.objs)]
       IN  /\ sess' = [s \in SessIds |->
                         IF s \in files
                         THEN [sess[s] EXCEPT !.count = r[s].w.count, !.seen = r[s].w.seen,
                                              !.buf = @ \o Encode(sess[s].gz, r[s].out),
                                              !.offered = @ \o call.objs,
                                              !.did = "writemany", !.nret = r[s].ret]
                         ELSE sess[s]]
    /\ call' = [call EXCEPT !.pc = IF call.bad THEN "raised" ELSE "closing", !.k = 0,
                            !.taken = Len(call.objs)]
    /\ UNCHANGED <<fs, disk, cnt, ld, alive>>

\* close files: for f in files: n_written is f.get_count(), or is asserted
\* to equal it; f.close().  The loop goes on when the close of the file
\* before returned, and dump returns n_written after the last.
DumpClose ==
    /\ alive
    /\ call.pc = "closing"
    /\ IF call.k = 0 THEN TRUE ELSE sess[call.k].pc \in {"closed", "raised"}
    /\ IF call.k > 0 /\ sess[call.k].pc = "raised"
       THEN /\ call' = [call EXCEPT !.pc = "raised"]
            /\ UNCHANGED <<sess, disk>>
       ELSE IF call.k = Len(call.paths)
       THEN /\ call' = [call EXCEPT !.pc = "returned", !.ret = call.n_written]
            /\ UNCHANGED <<sess, disk>>
       ELSE LET f == call.k + 1
                r == CloseFileOp(f, FALSE)
            IN  IF call.n_written # -1 /\ call.n_written # sess[f].count
                THEN \* assert n_written == f.get_count()
                     /\ call' = [call EXCEPT !.pc = "raised"]
                     /\ UNCHANGED <<sess, disk>>
                ELSE /\ call' = [call EXCEPT !.k = f, !.n_written = sess[f].count]
                     /\ sess' = [sess EXCEPT ![f] = r.se]
                     /\ disk' = Reap(fs, r.disk, sess')
    /\ UNCHANGED <<fs, cnt, ld, alive>>

(***************************************************************************)
(* get_count(glob_paths).                                                  *)
(***************************************************************************)
\* resolve_glob, filtered by os.path.isfile: the existing files a pattern
\* matches ("*" matches every file of the directory).
Glob(pattern) == {path \in Paths : Exists(path) /\ pattern \in {"*", path}}

RECURSIVE SumSkips(_)
SumSkips(paths) ==
    IF paths = {} THEN 0
    ELSE LET path == CHOOSE x \in paths : TRUE
         IN  ReaderSkip(NewReader(FALSE), TextAt(path), -1).ret
             + SumSkips(paths \ {path})

GetCount(pattern) ==
    /\ Free
    /\ cnt' = [n |-> SumSkips(Glob(pattern)), paths |-> Glob(pattern)]
    /\ cnt' # cnt
    /\ UNCHANGED <<fs, disk, sess, call, ld, alive>>

(***************************************************************************)
(* load(glob_paths, unique), a generator, run to its end: list(load(...)). *)
(***************************************************************************)
\* sorted(paths) in resolve_glob: the paths in string order.
PathOrder == <<"p", "p.partial", "q", "q.partial", "z.gz", "z.gz.partial">>
SortedGlob(pattern) == SelectSeq(PathOrder, LAMBDA path : path \in Glob(pattern))

RECURSIVE LoadFile(_, _, _, _, _)
\* for json_obj in f: the objects of one file from the reader state rd on,
\* less those whose hash is in seen.  st = "error" is json.JSONDecodeError.
LoadFile(rd, lines, unique, seen, ret) ==
    LET r == ReaderNext(rd, lines)
        json_hash == ReaderHash(r.obj)
    IN  IF r.st = "stop" THEN [st |-> "ok", ret |-> ret, seen |-> seen]
        ELSE IF r.st = "error" THEN [st |-> "error", ret |-> ret, seen |-> seen]
        ELSE IF unique /\ json_hash \in seen
        THEN LoadFile(r.rd, lines, unique, seen, ret)
        ELSE LoadFile(r.rd, lines, unique,
                      IF unique THEN seen \cup {json_hash} ELSE seen,
                      Append(ret, r.obj))

RECURSIVE LoadFilesFresh(_, _, _, _)
\* A variant without the outer set: every file is read with a dedup set of
\* its own, DumpFile(path, mode='r', unique=unique).
LoadFilesFresh(paths, unique, seen, ret) ==
    IF paths = <<>> THEN [st |-> "ok", ret |-> ret]
    ELSE LET r == LoadFile(NewReader(FALSE), TextAt(Head(paths)), unique, {}, ret)
         IN  IF r.st = "error" THEN [st |-> "error", ret |-> r.ret]
             ELSE LoadFilesFresh(Tail(paths), unique, r.seen, r.ret)

RECURSIVE LoadFiles(_, _, _, _)
\* for i, path in enumerate(input_paths): each file is opened with
\* DumpFile(path, mode='r', unique=False) and filtered through seen.
LoadFiles(paths, unique, seen, ret) ==
    IF paths = <<>> THEN [st |-> "ok", ret |-> ret]
    ELSE LET r == LoadFile(NewReader(FALSE), TextAt(Head(paths)), unique, seen, ret)
         IN  IF r.st = "error" THEN [st |-> "error", ret |-> r.ret]
             ELSE LoadFiles(Tail(paths), unique, r.seen, r.ret)

\* list(load(pattern, unique=unique)).
Load(pattern, unique) ==
    /\ Free
    /\ ld = NoLoad
    /\ LET r == LoadFiles(SortedGlob(pattern), unique, {}, <<>>)
       IN  ld' = [st |-> r.st, ret |-> r.ret, paths |-> SortedGlob(pattern),
                  unique |-> unique]
    /\ UNCHANGED <<fs, disk, sess, call, cnt, alive>>

(***************************************************************************)
(* The environment.                                                        *)
(***************************************************************************)
\* A dump() call or a DumpFile is at work.
Running ==
    IF call.pc \in CallActive THEN TRUE ELSE \E s \in SessIds : sess[s].pc \in Active
\* The program has a write or exclusive-create session on the target, or a
\* running dump() is about to open it.
Contended(path) ==
    IF call.pc = "opening" THEN \E i \in DOMAIN call.paths : call.paths[i] = path
    ELSE \E s \in SessIds : sess[s].pc \in Active /\ sess[s].path = path /\ sess[s].mode # "r"

\* The program is interrupted (killed): its open files are dropped with what
\* they buffered, and it takes no further step.
Kill ==
    /\ alive
    /\ Running
    /\ alive' = FALSE
    /\ sess' = [s \in SessIds |-> [sess[s] EXCEPT !.ino = 0, !.buf = <<>>]]
    /\ disk' = Reap(fs, disk, sess')
    /\ UNCHANGED <<fs, call, cnt, ld>>

\* Another process creates a target the program is working on.
OtherCreate(path) ==
    /\ alive
    /\ ~Exists(path)
    /\ Contended(path)
    /\ LET new == FreeIno(fs, sess)
       IN  /\ fs' = [fs EXCEPT ![path] = new]
           /\ disk' = [disk EXCEPT ![new] = OtherFile]
    /\ sess' = [s \in SessIds |->
                  IF sess[s].pc \in Active /\ sess[s].path = path /\ sess[s].raced = ""
                  THEN [sess[s] EXCEPT !.raced = sess[s].pc]
                  ELSE sess[s]]
    /\ UNCHANGED <<call, cnt, ld, alive>>

(***************************************************************************)
(* Spec, the commit protocol: a program that opens one write or            *)
(* exclusive-create DumpFile on the target "p", or makes one dump() call   *)
(* to one or two targets, beside another process and interruption.  The    *)
(* target and the temporary path may hold files from before.               *)
(***************************************************************************)
\* What the program writes here: the protocol does not look into the records.
SomeRecords == {<<<<"a", 1>>>>}
SomeInputs == UNION {[1..n -> SomeRecords] : n \in 0..MaxLen}
DumpPaths == {<<>>, <<"p">>, <<"p", "q">>, <<"p", "p">>}

\* Nothing was opened or called yet.
First == call.pc = "idle" /\ \A s \in SessIds : sess[s].pc = "none"

InitFiles(olds, stales) ==
    \E old \in olds, stale \in stales :
        /\ fs = [path \in Paths |->
                   IF path = "p" /\ old THEN 1
                   ELSE IF path = "p.partial" /\ stale THEN 2
                   ELSE 0]
        /\ disk = [i \in Inodes |->
                     IF i = 1 /\ old THEN OldFile
                     ELSE IF i = 2 /\ stale THEN StaleFile
                     ELSE NoFile]

Init ==
    /\ InitFiles(BOOLEAN, BOOLEAN)
    /\ sess = [s \in SessIds |-> Idle]
    /\ call = NoCall
    /\ cnt = NoCount
    /\ ld = NoLoad
    /\ alive = TRUE

Next ==
    \/ \E mode \in {"w", "x"}, unique, write_temp \in BOOLEAN :
          First /\ Open(1, "p", mode, unique, write_temp)
    \/ \E obj \in SomeRecords : Write(1, obj)
    \/ \E objs \in SomeInputs : WriteMany(1, objs)
    \/ Flush(1)
    \/ Close(1)
    \/ \E exc \in BOOLEAN : Exit(1, exc)
    \/ \E s \in SessIds : CloseIsFile(s)
    \/ \E s \in SessIds : CloseExists(s)
    \/ \E s \in SessIds : CloseUnlink(s)
    \/ \E s \in SessIds : CloseRename(s)
    \/ \E objs \in SomeInputs, bad, overwrite, unique \in BOOLEAN, paths \in DumpPaths :
          First /\ DumpCall(objs, bad, paths, overwrite, unique)
    \/ DumpOpen
    \/ DumpWrite
    \/ DumpClose
    \/ Kill
    \/ \E path \in Targets : OtherCreate(path)

Spec == Init /\ [][Next]_vars

(***************************************************************************)
(* SpecStore, the record store: a program that writes one store at "p"     *)
(* through a DumpFile (with write_temp, as dump does) and then either      *)
(* reads it through a second DumpFile or counts it, with nothing beside    *)
(* it.                                                                     *)
(***************************************************************************)
Inputs == UNION {[1..n -> Records] : n \in 0..MaxLen}
Patterns == {"p", "q", "*"}
\* The store is being written: nothing was read or counted yet.
Writing == sess[2].pc = "none" /\ cnt = NoCount
\* The store is written: its DumpFile was opened and is closed.
Written == sess[1].pc \notin Active \cup {"none"}

InitStore ==
    /\ InitFiles({FALSE}, {FALSE})
    /\ sess = [s \in SessIds |-> Idle]
    /\ call = NoCall
    /\ cnt = NoCount
    /\ ld = NoLoad
    /\ alive = TRUE

NextStore ==
    \/ \E unique \in BOOLEAN : First /\ Open(1, "p", "w", unique, TRUE)
    \/ \E obj \in Records : Writing /\ Write(1, obj)
    \/ \E objs \in Inputs : Writing /\ WriteMany(1, objs)
    \/ Writing /\ Flush(1)
    \/ sess[1].pc = "open" /\ Close(1)
    \/ CloseIsFile(1)
    \/ CloseExists(1)
    \/ CloseRename(1)
    \/ \E unique \in BOOLEAN :
          Writing /\ Written /\ Open(2, "p", "r", unique, FALSE)
    \/ \E n \in {-1, 1} : Read(2, n)
    \/ \E n \in {-1, 1} : Skip(2, n)
    \/ sess[2].pc = "open" /\ Close(2)
    \/ \E pattern \in Patterns : Writing /\ Written /\ GetCount(pattern)

SpecStore == InitStore /\ [][NextStore]_vars

(***************************************************************************)
(* roger_json: RogerReader over its own framer, opened by RogerOpen.       *)
(***************************************************************************)
\* next(self._reader) of roger_json: the same loop; at the end of the file
\* it asserts that the buffer is blank (fail = TRUE is the AssertionError).
RogerFramerNext(lines, pos) ==
    LET r == Scan(lines, pos, <<>>)
    IN  IF ~r.eof
        THEN [stop |-> FALSE, fail |-> FALSE, block |-> r.block, pos |-> r.pos]
        ELSE IF IsBlank(r.block)
        THEN [stop |-> TRUE, fail |-> FALSE, block |-> <<>>, pos |-> r.pos]
        ELSE [stop |-> FALSE, fail |-> TRUE, block |-> <<>>, pos |-> r.pos]

RECURSIVE RogerFramedBetween(_, _, _)
\* The blocks that framer yields from line pos until it stands at line to.
RogerFramedBetween(lines, pos, to) ==
    IF pos >= to THEN <<>>
    ELSE LET b == RogerFramerNext(lines, pos)
         IN  (IF b.stop \/ b.fail THEN <<>> ELSE <<b.block>>)
             \o RogerFramedBetween(lines, b.pos, to)

RECURSIVE RogerNext(_, _)
\* RogerReader.__next__: st is "ok", "stop", "error" (json.JSONDecodeError)
\* or "assert" (AssertionError).
RogerNext(rd, lines) ==
    LET b == RogerFramerNext(lines, rd.pos)
        o == Loads(b.block)
        at == [rd EXCEPT !.pos = b.pos]
    IN  IF b.stop THEN [st |-> "stop", obj |-> <<>>, rd |-> at]
        ELSE IF b.fail THEN [st |-> "assert", obj |-> <<>>, rd |-> at]
        ELSE IF ~o.ok THEN [st |-> "error", obj |-> <<>>, rd |-> at]
        ELSE IF rd.unique /\ ReaderHash(o.obj) \in rd.seen THEN RogerNext(at, lines)
        ELSE [st |-> "ok", obj |-> o.obj,
              rd |-> [at EXCEPT !.count = @ + 1,
                                !.seen = IF rd.unique THEN @ \cup {ReaderHash(o.obj)}
                                         ELSE @]]

RECURSIVE RogerReadN(_, _, _, _)
\* RogerReader.read_n(n).
RogerReadN(rd, lines, n, ret) ==
    IF n <= 0 THEN [st |-> "ok", ret |-> ret, rd |-> rd]
    ELSE LET r == RogerNext(rd, lines)
         IN  IF r.st = "stop" THEN [st |-> "ok", ret |-> ret, rd |-> r.rd]
             ELSE IF r.st = "ok" THEN RogerReadN(r.rd, lines, n - 1, Append(ret, r.obj))
             ELSE [st |-> r.st, ret |-> <<>>, rd |-> r.rd]

\* with RogerOpen(path) as f: f.read_n(n), the object kept in slot s: the
\* file is opened as text, read and closed.
RogerRead(s, path, n) ==
    /\ Free
    /\ sess[s].pc \notin Active
    /\ Exists(path)
    /\ LET lines == disk[fs[path]]
           r == RogerReadN(NewReader(TRUE), lines, n, <<>>)
       IN  sess' = [sess EXCEPT ![s] =
                      [Idle EXCEPT !.pc = IF r.st = "ok" THEN "closed" ELSE "raised",
                                   !.path = path, !.orig = FileAt(path), !.arg = n,
                                   !.pos = r.rd.pos, !.count = r.rd.count,
                                   !.seen = r.rd.seen, !.ret = r.ret,
                                   !.err = IF r.st = "assert" THEN "AssertionError"
                                           ELSE IF r.st = "error" THEN "JSONDecodeError"
                                           ELSE "",
                                   !.did = "read_n",
                                   !.blocks = RogerFramedBetween(lines, 1, r.rd.pos)]]
    /\ UNCHANGED <<fs, disk, call, cnt, ld, alive>>

(***************************************************************************)
(* SpecRead, the read side: stores are at "p" and perhaps at "q", and the  *)
(* program either loads them or reads "p" through one DumpFile.  The store *)
(* at "p" is any sequence of records as a writer leaves it, or any short   *)
(* text of separator, blank and {} lines.                                  *)
(***************************************************************************)
\* Lines of a text that is not the work of a writer.
MaxLines == 3
\* The store a writer that does not deduplicate leaves.
StoreOf(objs) == WriterWriteMany(NewWriter(FALSE), objs).out
Texts == UNION {[1..n -> {SepLine, BlankLine, EmptyLine}] : n \in 0..MaxLines}
Stores == {StoreOf(objs) : objs \in Inputs} \cup Texts
\* What may be at "q": nothing, or a store of one record.
SideStores == {<<>>, StoreOf(<<<<<<"a", 1>>, <<"b", 1>>>>>>)}

InitRead ==
    /\ \E p \in Stores, q \in SideStores :
          /\ fs = [path \in Paths |->
                     IF path = "p" THEN 1 ELSE IF path = "q" /\ q # <<>> THEN 2 ELSE 0]
          /\ disk = [i \in Inodes |-> IF i = 1 THEN p ELSE IF i = 2 THEN q ELSE NoFile]
    /\ sess = [s \in SessIds |-> Idle]
    /\ call = NoCall
    /\ cnt = NoCount
    /\ ld = NoLoad
    /\ alive = TRUE

NextRead ==
    \/ \E pattern \in {"p", "*"}, unique \in BOOLEAN : First /\ Load(pattern, unique)
    \/ \E unique \in BOOLEAN : First /\ ld = NoLoad /\ Open(2, "p", "r", unique, FALSE)
    \/ \E n \in {1, 2} : First /\ ld = NoLoad /\ RogerRead(1, "p", n)
    \/ \E n \in {-1, 0, 1, 2} : Read(2, n)
    \/ \E n \in {-1, 0, 1, 2} : Skip(2, n)
    \/ sess[2].pc = "open" /\ Close(2)

SpecRead == InitRead /\ [][NextRead]_vars

(***************************************************************************)
(* SpecSess, the sessions of one target: a program that opens DumpFile     *)
(* objects for writing "p" through its temporary file, two at a time,      *)
(* writes to them and closes them, any number of times.                    *)
(***************************************************************************)
InitSess ==
    /\ InitFiles(BOOLEAN, {FALSE})
    /\ sess = [s \in SessIds |-> Idle]
    /\ call = NoCall
    /\ cnt = NoCount
    /\ ld = NoLoad
    /\ alive = TRUE

\* The program is in no close() call: it makes one call at a time.
Quiet == \A s \in SessIds : sess[s].pc \notin Closing

NextSess ==
    \/ \E s \in SessIds : Quiet /\ Open(s, "p", "w", TRUE, TRUE)
    \/ \E s \in SessIds, obj \in SomeRecords : Quiet /\ Write(s, obj)
    \/ \E s \in SessIds : Quiet /\ Close(s)
    \/ \E s \in SessIds : CloseIsFile(s)
    \/ \E s \in SessIds : CloseExists(s)
    \/ \E s \in SessIds : CloseUnlink(s)
    \/ \E s \in SessIds : CloseRename(s)

SpecSess == InitSess /\ [][NextSess]_vars

(***************************************************************************)
(* SpecGz, compression and append: a program that writes a store, at "p"   *)
(* or at "z.gz", through a DumpFile in write or append mode, compressing   *)
(* or not, or through dump(), and then reads it through a second DumpFile. *)
(* "z.gz" may hold a store from before, plain or compressed.               *)
(***************************************************************************)
GzRecords == {<<>>, <<<<"a", 1>>>>}
GzInputs == UNION {[1..n -> GzRecords] : n \in 0..MaxLen}
\* A file that a compressing writer has written and closed.
GzFile(filename, lines) ==
    <<GzHeader(filename)>> \o DeflateLines(lines) \o <<GzTrailer(Len(lines))>>
\* What "z.gz" may hold from before: nothing, or one of the records, as text
\* or compressed.
GzOldRecords == <<<<<<"a", 1>>>>>>
GzOldFiles == {NoFile, StoreOf(GzOldRecords), GzFile("z", StoreOf(GzOldRecords))}

InitGz ==
    /\ \E old \in GzOldFiles :
          /\ fs = [path \in Paths |-> IF path = "z.gz" /\ old # NoFile THEN 1 ELSE 0]
          /\ disk = [i \in Inodes |-> IF i = 1 THEN old ELSE NoFile]
    /\ sess = [s \in SessIds |-> Idle]
    /\ call = NoCall
    /\ cnt = NoCount
    /\ ld = NoLoad
    /\ alive = TRUE

\* The store is written: the DumpFile in slot 1 wrote it and is closed.
WrittenGz == sess[1].pc = "closed" /\ sess[1].mode # "r" /\ call.pc \in {"idle", "returned"}

NextGz ==
    \/ \E path \in {"p", "z.gz"}, mode \in {"w", "a"}, unique \in BOOLEAN,
          write_gz \in {NoGz, GzFlag, GzNamed("z")} :
          First /\ OpenGz(1, path, mode, unique, FALSE, write_gz)
    \/ \E obj \in GzRecords : Write(1, obj)
    \/ Flush(1)
    \/ sess[1].pc = "open" /\ Close(1)
    \/ \E objs \in GzInputs, unique \in BOOLEAN :
          First /\ DumpCall(objs, FALSE, <<"z.gz">>, TRUE, unique)
    \/ DumpOpen
    \/ DumpWrite
    \/ DumpClose
    \/ CloseIsFile(1)
    \/ CloseExists(1)
    \/ CloseUnlink(1)
    \/ CloseRename(1)
    \/ \E unique \in BOOLEAN :
          WrittenGz /\ sess[2].pc = "none" /\ Open(2, sess[1].path, "r", unique, FALSE)
    \/ \E n \in {-1, 1} : Read(2, n)
    \/ sess[2].pc = "open" /\ Close(2)

SpecGz == InitGz /\ [][NextGz]_vars

(***************************************************************************)
(* SpecWriter: one write session on "q" whose stream may refuse a write.   *)
(***************************************************************************)
WriterRecords == {<<>>, <<<<"a", 1>>>>, <<<<"b", 1>>>>}

InitWriter ==
    /\ InitFiles({FALSE}, {FALSE})
    /\ sess = [s \in SessIds |-> Idle]
    /\ call = NoCall
    /\ cnt = NoCount
    /\ ld = NoLoad
    /\ alive = TRUE

NextWriter ==
    \/ \E mode \in {"w", "x"}, unique \in BOOLEAN :
          First /\ Open(1, "q", mode, unique, FALSE)
    \/ \E obj \in WriterRecords : Write(1, obj)
    \/ \E obj \in WriterRecords : WriteRaises(1, obj)
    \/ Flush(1)
    \/ sess[1].pc = "open" /\ Close(1)

SpecWriter == InitWriter /\ [][NextWriter]_vars

(***************************************************************************)
(* Round trip and deduplication (SpecStore).  Slot 1 wrote the store at    *)
(* "p", slot 2 reads it.                                                   *)
(***************************************************************************)
\* No two of the records have the same canonical form.
DistinctCanon(objs) ==
    \A i, j \in DOMAIN objs : i # j => Dumps(objs[i]) # Dumps(objs[j])
\* No two of the records have the same hash in the writer.
DistinctWriterHash(objs) ==
    \A i, j \in DOMAIN objs : i # j => WriterHash(objs[i]) # WriterHash(objs[j])
\* No two of the records have the same hash in the reader.
DistinctReaderHash(objs) ==
    \A i, j \in DOMAIN objs : i # j => ReaderHash(objs[i]) # ReaderHash(objs[j])

RECURSIVE Pick(_, _, _)
Pick(objs, idx, i) ==
    IF i > Len(objs) THEN <<>>
    ELSE (IF i \in idx THEN <<objs[i]>> ELSE <<>>) \o Pick(objs, idx, i + 1)
\* The records whose key (ks[i] is the key of objs[i]) no earlier record has.
FirstOccurrences(objs, ks) ==
    Pick(objs, {i \in DOMAIN objs : \A j \in 1..(i - 1) : ks[j] # ks[i]}, 1)
FirstByCanon(objs) == FirstOccurrences(objs, [i \in DOMAIN objs |-> Dumps(objs[i])])
FirstByHash(objs) == FirstOccurrences(objs, [i \in DOMAIN objs |-> WriterHash(objs[i])])

\* C1 as stated: records with pairwise-distinct canonical forms, written in
\* order through a write-mode session that is then closed, are what read(-1)
\* on a fresh read-mode session returns, in the same order.
C1_RoundTrip ==
    (sess[2].did = "read all" /\ DistinctCanon(sess[1].offered))
        => ListEq(sess[2].ret, sess[1].offered)

\* C1: the round trip returns the records written, in order, when no two of
\* them have the same content hash where a dedup set is kept: hash of the
\* indented canonical form in a deduplicating writer, hash of the compact
\* canonical form in a deduplicating reader.
C1_RoundTripDistinctHashes ==
    (/\ sess[2].did = "read all"
     /\ DistinctCanon(sess[1].offered)
     /\ sess[1].unique => DistinctWriterHash(sess[1].offered)
     /\ sess[2].unique => DistinctReaderHash(sess[1].offered))
        => ListEq(sess[2].ret, sess[1].offered)

\* Two records of distinct hashes, the first with its keys out of order, went
\* through a deduplicating writer and a deduplicating reader.
C1_Witness ==
    /\ sess[2].did = "read all" /\ sess[1].unique /\ sess[2].unique
    /\ Len(sess[1].offered) >= 2
    /\ sess[1].offered[1] = <<<<"b", 1>>, <<"a", 1>>>>
    /\ DistinctWriterHash(sess[1].offered) /\ DistinctReaderHash(sess[1].offered)
    /\ ListEq(sess[2].ret, sess[1].offered)
    /\ sess[2].ret # sess[1].offered

\* write(json_obj) appended the record and returned True / appended nothing
\* and returned False.
Appended(s, obj) ==
    /\ sess'[s].buf = sess[s].buf \o Dumps(obj) \o <<SepLine>>
    /\ sess'[s].did = "written"
NotAppended(s) == sess'[s].buf = sess[s].buf /\ sess'[s].did = "not written"
CanonsOf(objs) == {Dumps(objs[i]) : i \in DOMAIN objs}
HashesOf(objs) == {WriterHash(objs[i]) : i \in DOMAIN objs}

\* C2 as stated: in a deduplicating writer, write(record) appends nothing
\* and returns 'not written' when a record of the same canonical form was
\* written before, and appends the record and returns 'written' otherwise;
\* writemany returns the number of canonical forms of its input not written
\* before; the store reads back as the first occurrence of each canonical
\* form, in input order.
C2_WriterDedup ==
    [][/\ \A obj \in Records :
            sess[1].unique /\ Write(1, obj)
                => IF Dumps(obj) \in CanonsOf(sess[1].offered)
                   THEN NotAppended(1) ELSE Appended(1, obj)
       /\ \A objs \in Inputs :
            sess[1].unique /\ WriteMany(1, objs)
                => sess'[1].nret
                       = Cardinality(CanonsOf(objs) \ CanonsOf(sess[1].offered))
       /\ (sess[1].unique /\ sess'[2].did = "read all")
            => ListEq(sess'[2].ret, FirstByCanon(sess[1].offered))]_vars

\* C2: the same with the content hash (the hash of the canonical form, as
\* the writer computes it) in the place of the canonical form: a record is
\* not written when a record of the same hash was written before, writemany
\* returns the number of hashes of its input not written before, and the
\* store holds the first occurrence of each hash in input order, which a
\* reader returns when it does not deduplicate or no two of them have the
\* same hash in the reader.
C2_WriterDedupByHash ==
    [][/\ \A obj \in Records :
            sess[1].unique /\ Write(1, obj)
                => IF WriterHash(obj) \in HashesOf(sess[1].offered)
                   THEN NotAppended(1) ELSE Appended(1, obj)
       /\ \A objs \in Inputs :
            sess[1].unique /\ WriteMany(1, objs)
                => sess'[1].nret
                       = Cardinality(HashesOf(objs) \ HashesOf(sess[1].offered))
       /\ (/\ sess[1].unique /\ sess'[2].did = "read all"
           /\ sess[2].unique => DistinctReaderHash(FirstByHash(sess[1].offered)))
            => ListEq(sess'[2].ret, FirstByHash(sess[1].offered))]_vars

\* A deduplicating writer was offered a record twice, the second time with
\* its keys in another order, and refused it; the store read back has one
\* record.
C2_Witness ==
    /\ sess[1].unique /\ sess[1].did = "not written"
    /\ sess[1].offered = <<<<<<"a", 1>>, <<"b", 1>>>>, <<<<"b", 1>>, <<"a", 1>>>>>>
    /\ sess[2].did = "read all" /\ Len(sess[2].ret) = 1

(***************************************************************************)
(* Skip / count consistency (SpecStore).  Nothing writes once get_count    *)
(* was called, so the store at "p" is the store that was counted.          *)
(***************************************************************************)
\* read(-1) on a fresh read-mode DumpFile over the store at "p".
FreshRead(unique) == ReaderRead(NewReader(unique), disk[fs["p"]], -1)

\* C10 as stated: get_count over a store equals the length of read(-1) on
\* a fresh read-mode session (unique=True, the default) over the store.
C10_CountIsReadLength ==
    cnt.paths = {"p"} => cnt.n = Len(FreshRead(TRUE).ret)

\* C10: get_count over a store equals the length of read(-1) on a fresh
\* read-mode session that does not deduplicate, and that of one that does
\* when no two records of the store have the same content hash.
C10_CountIsRawReadLength ==
    cnt.paths = {"p"} =>
        /\ FreshRead(FALSE).st = "ok"
        /\ cnt.n = Len(FreshRead(FALSE).ret)
        /\ DistinctReaderHash(FreshRead(FALSE).ret) => cnt.n = Len(FreshRead(TRUE).ret)

\* A store of two records of distinct hashes was counted.
C10_Witness ==
    /\ cnt.paths = {"p"} /\ cnt.n = 2
    /\ DistinctReaderHash(FreshRead(FALSE).ret)
    /\ Len(FreshRead(TRUE).ret) = 2

(***************************************************************************)
(* The commit protocol (Spec).                                             *)
(***************************************************************************)
\* The file a session leaves at its target when it commits.
NewFile(se) == [exists |-> TRUE, data |-> se.wrote]

\* C3: once a write or exclusive-create session has written and closed its
\* temporary file, whenever the process is interrupted up to the end of
\* close() the target holds its original content unchanged (or is absent as
\* it was) or the complete new content.  Stated for a target no other
\* process touches.
C3_AtomicReplace ==
    \A s \in SessIds :
        (/\ sess[s].mode \in {"w", "x"} /\ sess[s].write_temp
         /\ sess[s].pc \in Closing \cup {"closed"}
         /\ sess[s].raced = "")
            => FileAt(sess[s].path) \in {sess[s].orig, NewFile(sess[s])}

\* C4: when the body of a with DumpFile(...) block of a write-mode session
\* raised after records were written, after the session is torn down the
\* original target is as it was when the session was opened.  Stated for a
\* session that writes through the temporary file to a target that exists
\* and that no other process touches.
C4_AllOrNothing ==
    \A s \in SessIds :
        (/\ sess[s].mode \in {"w", "x"} /\ sess[s].write_temp
         /\ sess[s].exc /\ sess[s].offered # <<>>
         /\ sess[s].pc \in {"closed", "raised"}
         /\ sess[s].orig.exists /\ sess[s].raced = "")
            => FileAt(sess[s].path) = sess[s].orig

\* The step leaves the existence and the content of the target unchanged.
TargetSame(path) ==
    /\ (fs'[path] # 0) = (fs[path] # 0)
    /\ fs[path] # 0 => disk'[fs'[path]] = disk[fs[path]]
\* The file the new session writes is the one at the temporary path.
WritesTemp(s, path) ==
    sess'[s].pc = "open" =>
        sess'[s].ino = fs'[TempOf(path)] /\ sess'[s].ino # fs'[path]
\* write, writemany or flush on the session.
WriteStep(s) ==
    \/ \E obj \in SomeRecords : Write(s, obj)
    \/ \E objs \in SomeInputs : WriteMany(s, objs)
    \/ Flush(s)

C6_RaceDetected ==
    \A s \in SessIds :
        (/\ sess[s].mode = "x" /\ sess[s].raced = "open"
         /\ sess[s].pc \in {"closed", "raised"})
            => sess[s].pc = "raised" /\ sess[s].err = "RaceCondition"

\* C7: when another process created the target of an exclusive-create
\* session while the session was open, the target holds what the other
\* process wrote from then on, through and after the close() of the session.
C7_WinnerPreserved ==
    \A s \in SessIds :
        (sess[s].mode = "x" /\ sess[s].raced = "open")
            => FileAt(sess[s].path) = [exists |-> TRUE, data |-> OtherFile]

\* The store dump() commits to each of its targets.
CommittedStore == WriterWriteMany(NewWriter(call.unique), call.objs).out
\* No target of the call has a temporary file and each holds the store.
AllCommitted ==
    \A i \in DOMAIN call.paths :
        /\ ~Exists(TempOf(call.paths[i]))
        /\ FileAt(call.paths[i]) = [exists |-> TRUE, data |-> CommittedStore]

\* C9 as stated: after dump returns normally, no target has a file at its
\* temporary path and every target exists and holds the committed store.
C9_NoLeftoverTemp == call.pc = "returned" => AllCommitted

\* C9: after dump returns normally having opened its targets (the call was
\* not the no-op that returns 0 because overwrite is false and a target
\* exists), no target has a file at its temporary path and every target
\* exists and holds the committed store.
C9_NoLeftoverTempAfterCommit ==
    (call.pc = "returned" /\ ~call.noop) => AllCommitted

\* dump of a record to two targets returned: the one that existed was
\* replaced, the other created, and neither has a temporary file.
C9_Witness ==
    /\ call.pc = "returned" /\ ~call.noop
    /\ call.paths = <<"p", "q">> /\ call.objs # <<>>
    /\ sess[1].orig = [exists |-> TRUE, data |-> OldFile]
    /\ ~sess[2].orig.exists
    /\ AllCommitted

(***************************************************************************)
(* Exclusive create against an existing target.                            *)
(***************************************************************************)
\* The constructor raised FileExistsError and left no open file, no writer
\* state and the file system as it was.
RefusedOpen(s) ==
    /\ fs' = fs /\ disk' = disk
    /\ sess'[s].pc = "raised" /\ sess'[s].err = "FileExistsError"
    /\ sess'[s].ino = 0 /\ sess'[s].count = 0 /\ sess'[s].seen = {}

\* C8: opening a DumpFile in mode 'x' on a target that exists raises
\* FileExistsError in the constructor, by a direct open as by the open of
\* dump(overwrite=False): the target and the temporary path are left as they
\* were (nothing created, nothing removed) and the object has no open file
\* and no writer.
C8_ExclusiveCreateRefused ==
    [][/\ \A unique, write_temp \in BOOLEAN :
            Exists("p") /\ Open(1, "p", "x", unique, write_temp) => RefusedOpen(1)
       /\ (/\ call.pc = "opening" /\ call.mode = "x"
           /\ Exists(call.paths[call.k + 1])
           /\ DumpOpen) => RefusedOpen(call.k + 1) /\ call'.pc = "raised"]_vars

\* An exclusive create was refused while the target and a temporary file of
\* an earlier run were both there, and both still are.
C8_Witness ==
    /\ sess[1].pc = "raised" /\ sess[1].err = "FileExistsError" /\ sess[1].mode = "x"
    /\ FileAt("p") = [exists |-> TRUE, data |-> OldFile]
    /\ FileAt("p.partial") = [exists |-> TRUE, data |-> StaleFile]

(***************************************************************************)
(* Aggregate load (SpecRead).                                              *)
(***************************************************************************)
RECURSIVE RecordsOf(_)
\* The records of the files, file after file, as a reader that does not
\* deduplicate returns them.
RecordsOf(paths) ==
    IF paths = <<>> THEN <<>>
    ELSE ReaderRead(NewReader(FALSE), disk[fs[Head(paths)]], -1).ret
         \o RecordsOf(Tail(paths))

\* C11 as stated: load(patterns, unique=True) yields the first occurrence
\* of each distinct record of the concatenation of the matched stores, in
\* sorted-path order and then file order, and so each distinct record once.
C11_LoadFirstOccurrences ==
    (ld.st = "ok" /\ ld.unique) =>
        LET all == RecordsOf(ld.paths)
        IN  ld.ret = FirstOccurrences(all, [i \in DOMAIN all |-> SortKeys(all[i])])

\* C11: load(patterns, unique=True) yields the first occurrence of each
\* distinct content hash (the hash of the compact canonical form) of the
\* concatenation of the matched stores, in sorted-path order and then file
\* order: a record is yielded once however often and in however many files
\* it occurs, and a record whose hash an earlier record has is not yielded.
C11_LoadFirstByHash ==
    (ld.st = "ok" /\ ld.unique) =>
        LET all == RecordsOf(ld.paths)
        IN  ld.ret = FirstOccurrences(all, [i \in DOMAIN all |-> ReaderHash(all[i])])

\* Two files were loaded: the record of the second is in the first as
\* well, after another record, and was yielded once.
C11_Witness ==
    /\ ld.st = "ok" /\ ld.unique /\ ld.paths = <<"p", "q">>
    /\ RecordsOf(<<"q">>) = <<<<<<"a", 1>>, <<"b", 1>>>>>>
    /\ RecordsOf(<<"p">>) = <<<<<<"a", 1>>>>, <<<<"a", 1>>, <<"b", 1>>>>>>
    /\ ld.ret = RecordsOf(<<"p">>)

(***************************************************************************)
(* dump (Spec).                                                            *)
(***************************************************************************)
\* C12: dump with overwrite=False when a target exists returns 0 and is a
\* no-op: no target and no temporary file of any of its paths is created,
\* removed or modified, no DumpFile is opened, and no element is taken from
\* the input sequence (an iterator that would raise is not touched).
C12_NoOverwriteNoOp ==
    [][\A objs \in SomeInputs, bad, unique \in BOOLEAN, paths \in DumpPaths :
         (/\ \E i \in DOMAIN paths : Exists(paths[i])
          /\ DumpCall(objs, bad, paths, FALSE, unique))
            => /\ call'.pc = "returned" /\ call'.ret = 0 /\ call'.taken = 0
               /\ fs' = fs /\ disk' = disk /\ sess' = sess]_vars

\* dump of records to two targets without overwrite returned 0: the target
\* that was there and the temporary file of an earlier run are as they
\* were, the other target was not created.
C12_Witness ==
    /\ call.pc = "returned" /\ call.noop /\ call.mode = "x" /\ call.ret = 0
    /\ call.paths = <<"p", "q">> /\ call.objs # <<>> /\ call.bad /\ call.taken = 0
    /\ FileAt("p") = [exists |-> TRUE, data |-> OldFile]
    /\ FileAt("p.partial") = [exists |-> TRUE, data |-> StaleFile]
    /\ ~Exists("q") /\ ~Exists("q.partial")

\* The records a reader that does not deduplicate finds at the path.
RecordsAt(path) == ReaderRead(NewReader(FALSE), FileAt(path).data, -1).ret

\* C13: in a dump to two or more targets every record of the input was
\* offered to every target in input order, each target with a dedup set of
\* its own; in the close loop the write counts of the targets are the same
\* (the assertion holds), and when dump returns it returns that count and
\* the targets hold the same records.
C13_Broadcast ==
    (Len(call.paths) >= 2 /\ call.pc \in {"closing", "returned"} /\ ~call.noop) =>
        /\ \A f \in DOMAIN call.paths :
              /\ sess[f].offered = call.objs
              /\ sess[f].count = sess[1].count
              /\ sess[f].unique => sess[f].seen = HashesOf(call.objs)
        /\ call.n_written \in {-1, sess[1].count}
        /\ call.pc = "returned" =>
              /\ call.ret = sess[1].count
              /\ \A i \in DOMAIN call.paths :
                    /\ Exists(call.paths[i])
                    /\ RecordsAt(call.paths[i]) = RecordsAt(call.paths[1])

\* A deduplicating dump of a record given twice to two targets returned 1,
\* and each target holds the record once.
C13_Witness ==
    /\ call.pc = "returned" /\ call.paths = <<"p", "q">> /\ call.unique
    /\ Len(call.objs) = 2 /\ call.ret = 1
    /\ RecordsAt("p") = <<call.objs[1]>> /\ RecordsAt("q") = <<call.objs[1]>>

(***************************************************************************)
(* The life of a session (SpecSess).                                       *)
(***************************************************************************)
\* C19: a session is closed once: close() on a closed session warns, raises
\* no error and leaves the session closed, and no step of that call changes
\* the target or a temporary file.
C19_ClosedOnce ==
    [][\A s \in SessIds :
         /\ (sess[s].pc = "closed" /\ Close(s)) =>
                /\ sess'[s].warned /\ sess'[s].pc \in Closing \cup {"closed"}
                /\ fs' = fs /\ disk' = disk
         /\ (sess[s].again /\ sess[s].pc \in Closing /\ sess'[s] # sess[s]) =>
                /\ sess'[s].pc \in Closing \cup {"closed"}
                /\ fs' = fs /\ disk' = disk]_vars

(***************************************************************************)
(* The reader (SpecRead): the DumpFile in slot 2 reads the store at "p".   *)
(***************************************************************************)
Min(a, b) == IF a < b THEN a ELSE b
\* The records still ahead of the reader, and whether every block ahead is
\* one: the blocks are those ended by a separator, and what follows the
\* last separator unless it is blank.
Ahead(se) == ParsedBetween(disk[se.ino], se.pos, Len(disk[se.ino]) + 1)
RawAhead(se) ==
    LET lines == disk[se.ino]
        seps == {i \in se.pos..Len(lines) : lines[i] = SepLine}
    IN  Cardinality(seps)
        + (IF \E i \in se.pos..Len(lines) :
                 /\ lines[i] # BlankLine
                 /\ \A j \in seps : j < i
           THEN 1 ELSE 0)
WellFormedAhead(se) == Len(Ahead(se)) = RawAhead(se)
\* The records ahead that a read surfaces: all of them, or under dedup the
\* first of each hash that is not in the dedup set.
NovelAhead(se) ==
    LET objs == Ahead(se)
    IN  IF ~se.unique THEN Len(objs)
        ELSE Cardinality({i \in DOMAIN objs :
                            /\ ReaderHash(objs[i]) \notin se.seen
                            /\ \A j \in 1..(i - 1) :
                                  ReaderHash(objs[j]) # ReaderHash(objs[i])})
Reading(se) == se.pc = "open" /\ se.mode = "r"

\* C15 as stated: under dedup the records next() returned so far have
\* pairwise distinct hashes, are the first occurrence of each distinct
\* record among the records next() consumed, in file order, and the read
\* counter is their number.
C15_ReaderFirstOccurrences ==
    (Reading(sess[2]) /\ sess[2].unique) =>
        /\ DistinctReaderHash(sess[2].got)
        /\ sess[2].got = FirstOccurrences(sess[2].fed,
                              [i \in DOMAIN sess[2].fed |-> SortKeys(sess[2].fed[i])])
        /\ sess[2].count = Len(sess[2].got)

\* C15: under dedup the records next() returned so far have pairwise
\* distinct hashes, are the first occurrence of each hash among the records
\* next() consumed, in file order, and the read counter is their number;
\* the dedup set holds their hashes.  Without dedup they are the records
\* consumed.
C15_ReaderFirstByHash ==
    Reading(sess[2]) =>
        /\ sess[2].count = Len(sess[2].got)
        /\ sess[2].unique =>
              /\ DistinctReaderHash(sess[2].got)
              /\ sess[2].got = FirstOccurrences(sess[2].fed,
                                    [i \in DOMAIN sess[2].fed |-> ReaderHash(sess[2].fed[i])])
              /\ sess[2].seen = {ReaderHash(sess[2].got[i]) : i \in DOMAIN sess[2].got}
        /\ ~sess[2].unique => sess[2].got = sess[2].fed

\* A deduplicating reader consumed a record with keys twice and returned
\* it once.
C15_Witness ==
    /\ Reading(sess[2]) /\ sess[2].unique
    /\ Len(sess[2].fed) = 2 /\ Len(sess[2].fed[1]) = 2
    /\ SortKeys(sess[2].fed[1]) = SortKeys(sess[2].fed[2])
    /\ sess[2].got = <<sess[2].fed[1]>> /\ sess[2].count = 1

\* C16: skip(n) passes min(n, blocks ahead) raw blocks for n >= 0 and all
\* the blocks ahead for n < 0, returns that number, and leaves the dedup
\* set and the read counter as they are.
C16_Skip ==
    [][\A n \in {-1, 0, 1, 2} :
         Skip(2, n) =>
            /\ sess'[2].nret = IF n < 0 THEN RawAhead(sess[2])
                               ELSE Min(n, RawAhead(sess[2]))
            /\ RawAhead(sess'[2]) = RawAhead(sess[2]) - sess'[2].nret
            /\ sess'[2].seen = sess[2].seen
            /\ sess'[2].count = sess[2].count]_vars

\* Over a store of one record twice a deduplicating reader skipped one
\* block, and the read after it returned the record of the skipped block.
C16_Witness ==
    /\ Reading(sess[2]) /\ sess[2].unique
    /\ \E obj \in Records : obj # <<>> /\ disk[sess[2].ino] = StoreOf(<<obj, obj>>)
                             /\ sess[2].ret = <<obj>> /\ sess[2].fed = <<obj>>
    /\ sess[2].nret = 1 /\ sess[2].count = 1

\* C17: read(n) never raises StopIteration; over well-formed blocks it
\* returns min(n, novel records ahead) records for n >= 0 and all the novel
\* records ahead for n < 0, none when the reader is exhausted.
C17_ReadNoEndOfStream ==
    [][\A n \in {-1, 0, 1, 2} :
         Read(2, n) =>
            /\ sess'[2].err # "StopIteration"
            /\ WellFormedAhead(sess[2]) =>
                  /\ sess'[2].err = ""
                  /\ Len(sess'[2].ret) = IF n < 0 THEN NovelAhead(sess[2])
                                         ELSE Min(n, NovelAhead(sess[2]))]_vars

\* read(2) of a deduplicating reader over a store of one record twice met
\* the end of the store while it passed the duplicate, and returned the
\* record.
C17_Witness ==
    /\ Reading(sess[2]) /\ sess[2].unique /\ sess[2].arg = 2 /\ sess[2].err = ""
    /\ Len(sess[2].ret) = 1 /\ Len(sess[2].fed) = 2 /\ Len(sess[2].got) = 1
    /\ sess[2].pos = Len(disk[sess[2].ino]) + 1

(***************************************************************************)
(* The framers (SpecRead): the text read is the file as it was opened.     *)
(***************************************************************************)
\* The lines of the blocks of a text: the k-th block ends before the k-th
\* separator line and starts after the one before it; the rest follows the
\* last separator.
SepsOf(lines) == {i \in DOMAIN lines : lines[i] = SepLine}
BlockEnd(lines, k) ==
    CHOOSE i \in SepsOf(lines) : Cardinality({j \in SepsOf(lines) : j <= i}) = k
BlockOf(lines, k) ==
    SubSeq(lines, IF k = 1 THEN 1 ELSE BlockEnd(lines, k - 1) + 1,
           IF k <= Cardinality(SepsOf(lines)) THEN BlockEnd(lines, k) - 1 ELSE Len(lines))
\* What the framer of a reader has yielded is the blocks of the text up to
\* where the framer stands; at the end of the text a rest that is not blank
\* was yielded as well, with the warning, and no assertion failed.
FramedAsStated(se) ==
    LET lines == se.orig.data
        nseps == Cardinality(SepsOf(lines))
        done == Cardinality({i \in SepsOf(lines) : i < se.pos})
        rest == ~IsBlank(BlockOf(lines, nseps + 1))
    IN  /\ \A k \in DOMAIN se.blocks : se.blocks[k] = BlockOf(lines, k)
        /\ IF se.pos <= Len(lines)
           THEN Len(se.blocks) = done /\ ~se.corrupt
           ELSE /\ Len(se.blocks) = nseps + (IF rest THEN 1 ELSE 0)
                /\ se.corrupt = rest
                /\ se.err \in {"", "JSONDecodeError"}

\* C18: a framer yields one block for each separator line, in order, with
\* the lines since the separator before it; at the end of the stream it
\* yields nothing for a blank rest, and yields a rest that is not blank as
\* the last block, with a warning.
C18_FramerYieldsRest ==
    \A s \in SessIds :
        (sess[s].mode = "r" /\ sess[s].did # "" /\ sess[s].orig.exists)
            => FramedAsStated(sess[s])

(***************************************************************************)
(* Compression and append (SpecGz).                                        *)
(***************************************************************************)
\* The text of the bytes, uncompressed when they start with 1F 8B.
PlainOf(bytes) == IF HasMagic(bytes) THEN Gunzip(bytes).lines ELSE bytes
\* The text the session in slot 1 leaves, were nothing compressed: what the
\* store held when it was opened for append, and the blocks of a writer
\* that is given the records offered.
PlainWritten ==
    (IF sess[1].mode = "a" THEN PlainOf(sess[1].orig.data) ELSE <<>>)
    \o WriterWriteMany(NewWriter(sess[1].unique), sess[1].offered).out

\* C14: a store that was written, compressed or not, to a path that ends
\* in '.gz' or not, reads back through read(-1) of a fresh read session as
\* the records the same text reads as when it is not compressed; the read
\* session decompresses exactly when the file starts with the bytes 1F 8B.
C14_GzRoundTrip ==
    /\ (sess[2].mode = "r" /\ sess[2].pc \in {"open", "closed"}) =>
          sess[2].gz = HasMagic(sess[2].orig.data)
    /\ (WrittenGz /\ sess[2].did = "read all") =>
          /\ sess[2].err = ""
          /\ sess[2].ret = ReaderRead(NewReader(sess[2].unique), PlainWritten, -1).ret

\* dump() wrote two records to "z.gz", compressed by the name of the path,
\* and read(-1) of a read session returned them.
C14_Witness ==
    /\ WrittenGz /\ call.pc = "returned" /\ call.paths = <<"z.gz">>
    /\ sess[1].gz /\ HasMagic(disk[fs["z.gz"]]) /\ disk[fs["z.gz"]] # PlainWritten
    /\ sess[2].did = "read all" /\ sess[2].gz
    /\ Len(sess[2].ret) = 2 /\ sess[2].ret = call.objs

\* write(obj) of the session in slot 1 appended the record and returned
\* 'written'; or it appended nothing and returned 'not written'.
WroteGz(obj) ==
    /\ sess'[1].did = "written"
    /\ sess'[1].buf = sess[1].buf \o Encode(sess[1].gz, Dumps(obj) \o <<SepLine>>)
WroteNothingGz == sess'[1].did = "not written" /\ sess'[1].buf = sess[1].buf
\* An append session that was closed left the bytes the store held and
\* after them, as text, the blocks of the records.
AppendedAfter(objs) ==
    (sess[1].mode = "a" /\ sess[1].pc = "closed") =>
        /\ SubSeq(disk[fs[sess[1].path]], 1, Len(sess[1].orig.data)) = sess[1].orig.data
        /\ TextAt(sess[1].path) = PlainOf(sess[1].orig.data) \o StoreOf(objs)

\* C20 as stated: the first write of a record through an append session
\* appends it and returns 'written' whatever the store holds (a later write
\* of it under dedup does not); the closed store is what it held, then the
\* blocks of the first occurrences of the records written, in write order.
C20_AppendFirstWrite ==
    /\ [][\A obj \in GzRecords :
            (sess[1].mode = "a" /\ Write(1, obj)) =>
                IF sess[1].unique /\ Dumps(obj) \in CanonsOf(sess[1].offered)
                THEN WroteNothingGz ELSE WroteGz(obj)]_vars
    /\ [](AppendedAfter(IF sess[1].unique THEN FirstByCanon(sess[1].offered)
                         ELSE sess[1].offered))

\* C20: the first write of a content hash through an append session appends
\* the record and returns 'written' whatever the store holds (a later write
\* of the hash under dedup does not); the closed store is what it held,
\* then the blocks of the first occurrences of the hashes written, in write
\* order.
C20_AppendFirstHash ==
    /\ [][\A obj \in GzRecords :
            (sess[1].mode = "a" /\ Write(1, obj)) =>
                IF sess[1].unique /\ WriterHash(obj) \in HashesOf(sess[1].offered)
                THEN WroteNothingGz ELSE WroteGz(obj)]_vars
    /\ [](AppendedAfter(IF sess[1].unique THEN FirstByHash(sess[1].offered)
                         ELSE sess[1].offered))

\* A deduplicating append session over a compressed store of one record
\* wrote that record, and the closed store holds it twice.
C20_Witness ==
    /\ sess[1].mode = "a" /\ sess[1].pc = "closed" /\ sess[1].unique /\ sess[1].gz
    /\ sess[1].offered = GzOldRecords /\ sess[1].did = "written"
    /\ RecordsIn(PlainOf(sess[1].orig.data)) = GzOldRecords
    /\ RecordsIn(TextAt("z.gz")) = GzOldRecords \o GzOldRecords

(***************************************************************************)
(* The temporary path of two sessions of one target (SpecSess).            *)
(***************************************************************************)
\* The session in slot s is open and the file it writes is at its
\* temporary path.
HoldsTemp(s) ==
    /\ sess[s].pc = "open" /\ sess[s].temp
    /\ fs[TempOf(sess[s].path)] = sess[s].ino

\* C21: while a write session is open with its file at the temporary path,
\* no step of another session takes the file from the path or changes it;
\* and the rename of a close puts at the target the file this session
\* wrote and closed.
C21_TempOwned ==
    [][\A s \in SessIds :
         /\ (HoldsTemp(s) /\ sess'[s] = sess[s]) =>
                /\ fs'[TempOf(sess[s].path)] = sess[s].ino
                /\ disk'[sess[s].ino] = disk[sess[s].ino]
         /\ (CloseRename(s) /\ sess'[s].pc = "closed") =>
                disk'[fs'[sess[s].path]] = sess[s].wrote]_vars

(***************************************************************************)
(* The writer's counter and dedup set (SpecWriter).                        *)
(***************************************************************************)
\* The records the session in slot s has appended to its stream, flushed
\* or not.
AppendedBy(s) ==
    RecordsIn((IF sess[s].ino # 0 THEN disk[sess[s].ino] ELSE <<>>) \o sess[s].buf)

\* The writer's counter is the number of records appended.
CountsAppended ==
    sess[1].pc = "open" => sess[1].count = Len(AppendedBy(1))
\* Every hash of the dedup set is the hash of a record appended.
SeenAppended ==
    (sess[1].pc = "open" /\ sess[1].unique) =>
        sess[1].seen \subseteq HashesOf(AppendedBy(1))
\* A record with the hash of no appended record, written to a stream that
\* takes it, is appended and returned as written.
RetryWritten ==
    [][\A obj \in WriterRecords :
         (/\ sess[1].unique
          /\ WriterHash(obj) \notin HashesOf(AppendedBy(1))
          /\ Write(1, obj)) => Appended(1, obj)]_vars

\* C22: in every state of a writer, a state after a write whose stream
\* write raised included, the counter is the number of records appended and
\* the dedup set holds only hashes of appended records; a record whose
\* write raised is written when it is offered again.
C22_Bookkeeping == [](CountsAppended /\ SeenAppended) /\ RetryWritten

====
